---- MODULE Spec2Model ----
(***************************************************************************)
(* Verification model of the launcher core:                                *)
(*   - the rule evaluator      core/version.rs  check_allowed              *)
(*   - the version resolver    core/version.rs  Version::parse,            *)
(*                             resolve_libraries, resolve_arguments        *)
(*   - the downloader          utils/download.rs download, download_files  *)
(*   - the installer           install/mod.rs   install,                   *)
(*                             install_dependencies                        *)
(*   - the launcher            launch/mod.rs    from_launch_options,       *)
(*                             to_async_command; launch/launch.rs launch   *)
(*   - the folder model        core/folder.rs   MinecraftLocation          *)
(* An Option<T> of the source is a sequence of length 0 (None) or 1 (Some).*)
(* The futures of the download buffer are a bag of the tasks they fetch:   *)
(* two futures that fetch equal tasks are interchangeable.                 *)
(***************************************************************************)
EXTENDS Integers, Sequences, FiniteSets, Bags, TLC

VARIABLES
    \* rule evaluator: one call of check_allowed
    rules, platform, allowed, rules_pc,
    \* version resolver: one call of Version::parse
    disk, input, inherits_from, versions, inheritances, path_chain, parse_pc, resolved,
    \* downloader: one call of download_files
    fs, download_tasks, verify_existing, dl_pc, surviving, total, next_task,
    in_flight, counter, yielded, events, first_fs,
    \* installer: one call of install
    inst_entry, manifest, version_id, version_json, index_objects, inst_pc, inst_version,
    root_files, json_write, download_list, fetches_started, fetching, inst_result,
    \* launcher: one call of launch
    launch_options, launch_version, launch_pc, jvm_options, command_arguments, argv, child,
    exit_status, on_start_calls, on_exit_calls, launch_result,
    \* launcher: the reader threads of launch and the output of the child
    should_terminate, reader_pc, pipes, written, delivered,
    \* folder model: MinecraftLocation::new and its getters
    folder_call, minecraft, folder_paths

rule_vars == <<rules, allowed, rules_pc>>
parse_vars == <<disk, input, inherits_from, versions, inheritances, path_chain, parse_pc, resolved>>
dl_vars == <<fs, download_tasks, verify_existing, dl_pc, surviving, total, next_task,
             in_flight, counter, yielded, events, first_fs>>
install_vars == <<inst_entry, manifest, version_id, version_json, index_objects, inst_pc,
                  inst_version, root_files, json_write, download_list, fetches_started,
                  fetching, inst_result>>
launch_vars == <<launch_options, launch_version, launch_pc, jvm_options, command_arguments,
                 argv, child, exit_status, on_start_calls, on_exit_calls, launch_result>>
reader_vars == <<should_terminate, reader_pc, pipes, written, delivered>>
folder_vars == <<folder_call, minecraft, folder_paths>>
vars == <<rule_vars, platform, parse_vars, dl_vars, install_vars, launch_vars, reader_vars,
          folder_vars>>

None == <<>>
Some(x) == <<x>>
IsSome(o) == Len(o) = 1
Unwrap(o) == o[1]
UnwrapOr(o, d) == IF IsSome(o) THEN o[1] ELSE d

(***************************************************************************)
(* Bounds of the model.                                                    *)
(***************************************************************************)
MaxRules == 3
MaxLibs == 2
MaxChain == 4
MaxSmallTasks == 2
LargeTasks == 17
MaxManifest == 3
MaxAssets == 2
MaxPolls == 2
MaxLines == 2

(***************************************************************************)
(* Platform probe and regular expressions.                                 *)
(***************************************************************************)
\* PlatformInfo { name, version }: the values the probe can return.
Platforms ==
    { [name |-> "linux",   version |-> "5.15.0"],
      [name |-> "linux",   version |-> "6.1.0"],
      [name |-> "windows", version |-> "10.0.19045"] }

\* Regex::is_match(&Regex::new(re), text) on the patterns and versions above
RegexIsMatch(re, text) ==
    <<re, text>> \in { <<"^5\\.", "5.15.0">>, <<"^10\\.", "10.0.19045">> }

(***************************************************************************)
(* Rules.                                                                  *)
(***************************************************************************)
OsValues ==
    { None,
      Some([name |-> None, version |-> None]),
      Some([name |-> None, version |-> Some("^10\\.")]),
      Some([name |-> Some("linux"), version |-> None]),
      Some([name |-> Some("linux"), version |-> Some("^5\\.")]),
      Some([name |-> Some("windows"), version |-> None]) }

FeatureValues == { None, Some({<<"is_demo_user", TRUE>>}) }

\* Rule { action, os, features }
Rules ==
    [action : {"allow", "disallow"}, os : OsValues, features : {None}]
    \cup [action : {"allow", "disallow"}, os : {None}, features : FeatureValues]

RECURSIVE SeqsUpTo(_, _)
SeqsUpTo(S, n) ==
    IF n = 0 THEN { <<>> }
    ELSE LET shorter == SeqsUpTo(S, n - 1)
         IN  shorter \cup { Append(s, x) : s \in { t \in shorter : Len(t) = n - 1 }, x \in S }

\* one iteration of the loop of check_allowed: the verdict after `rule`
CheckRuleLegacy(allow, rule, p) ==
    LET action == rule.action = "allow"
        apply ==
            IF ~IsSome(rule.os) THEN TRUE
            ELSE LET os == Unwrap(rule.os) IN
                 /\ IsSome(os.name)
                 /\ Unwrap(os.name) = p.name
                 /\ \/ ~IsSome(os.version)
                    \/ RegexIsMatch(Unwrap(os.version), p.version)
    IN  IF apply THEN action ELSE allow

CheckRule(allow, rule, p) ==
    LET action == rule.action = "allow" IN
    IF ~IsSome(rule.os) THEN action
    ELSE LET os == Unwrap(rule.os) IN
         IF ~IsSome(os.name) THEN action
         ELSE IF p.name # Unwrap(os.name) THEN allow
         ELSE IF ~IsSome(os.version) THEN action
         ELSE IF RegexIsMatch(Unwrap(os.version), p.version) THEN action
         ELSE allow

RECURSIVE CheckLoop(_, _, _, _)
CheckLoop(rs, p, i, allow) ==
    IF i > Len(rs) THEN allow
    ELSE CheckLoop(rs, p, i + 1, CheckRule(allow, rs[i], p))

check_allowed(rs, p) ==
    IF Len(rs) = 0 THEN TRUE ELSE CheckLoop(rs, p, 1, FALSE)

(***************************************************************************)
(* Version files.                                                          *)
(***************************************************************************)
\* the all-default AssetIndex of Version::parse
DefaultAssetIndex == [size |-> 0, url |-> "", id |-> "", total_size |-> 0]
DefaultJavaVersion == [component |-> "jre-legacy", major_version |-> 8]

\* Version: the raw json format (a HashMap is a set of <<key, value>> pairs)
Version(id, inh, mc, ai, as, dl, lg, jv, libs, args) ==
    [ id |-> id, time |-> None, type |-> None, release_time |-> None,
      inherits_from |-> inh, minimum_launcher_version |-> None,
      arguments |-> args, main_class |-> mc, libraries |-> libs,
      asset_index |-> ai, assets |-> as, downloads |-> dl, logging |-> lg,
      java_version |-> jv, client_version |-> None ]

\* versions_folder.join(name).join(format!("{}.json", name))
VersionJsonPath(name) == "versions/" \o name \o "/" \o name \o ".json"

(***************************************************************************)
(* resolve_arguments                                                       *)
(***************************************************************************)
\* a serde_json::Value of an argument list: a string, an object
\* {rules?, value: string | [string]} or any other value
ArgString(s) == [kind |-> "string", str |-> s, rules |-> None, value |-> <<>>, value_kind |-> "none"]
ArgObject(rs, vk, v) == [kind |-> "object", str |-> "", rules |-> rs, value |-> v, value_kind |-> vk]
ArgOther == [kind |-> "other", str |-> "", rules |-> None, value |-> <<>>, value_kind |-> "none"]

RECURSIVE PushAll(_, _)
PushAll(result, values) ==
    IF values = <<>> THEN result
    ELSE PushAll(result \o Head(values) \o " ", Tail(values))

ResolveArgument(result, argument, p) ==
    IF argument.kind = "string" THEN result \o argument.str \o " "
    ELSE IF argument.kind # "object" THEN result
    ELSE IF IsSome(argument.rules) /\ ~check_allowed(Unwrap(argument.rules), p) THEN result
    ELSE IF argument.value_kind = "string" THEN result \o argument.value[1] \o " "
    ELSE IF argument.value_kind = "array" THEN PushAll(result, argument.value)
    ELSE result

RECURSIVE ResolveArgumentsLoop(_, _, _)
ResolveArgumentsLoop(result, arguments, p) ==
    IF arguments = <<>> THEN result
    ELSE ResolveArgumentsLoop(ResolveArgument(result, Head(arguments), p), Tail(arguments), p)

resolve_arguments(arguments, p) == ResolveArgumentsLoop("", arguments, p)

(***************************************************************************)
(* resolve_libraries                                                       *)
(***************************************************************************)
\* a library json value: name is the list of its ':' separated segments, each
\* segment the list of its '.' separated parts
RECURSIVE Join(_, _)
Join(parts, sep) ==
    IF parts = <<>> THEN ""
    ELSE IF Len(parts) = 1 THEN parts[1]
    ELSE parts[1] \o sep \o Join(Tail(parts), sep)

DefaultMavenUrl == "http://files.minecraftforge.net/maven/"

\* the Artifact built from a maven coordinate
MavenArtifact(library) ==
    LET segs == Unwrap(library.name)
        package == Join(segs[1], "/")
        name == Join(segs[2], ".")
        version == Join(segs[3], ".")
        url == UnwrapOr(library.url, DefaultMavenUrl)
        path == package \o "/" \o name \o "/" \o version \o "/" \o name \o "-" \o version \o ".jar"
    IN  [sha1 |-> "", size |-> 0, url |-> url \o path, path |-> path]

\* one iteration of the loop of resolve_libraries
ResolveLibrary(result, library, p) ==
    IF IsSome(library.rules) /\ ~check_allowed(Unwrap(library.rules), p) THEN result
    ELSE IF IsSome(library.artifact) THEN Append(result, Unwrap(library.artifact))
    ELSE IF ~IsSome(library.name) THEN result
    ELSE IF Len(Unwrap(library.name)) # 3 THEN result
    ELSE Append(result, MavenArtifact(library))

RECURSIVE ResolveLibrariesLoop(_, _, _)
ResolveLibrariesLoop(result, libraries, p) ==
    IF libraries = <<>> THEN result
    ELSE ResolveLibrariesLoop(ResolveLibrary(result, Head(libraries), p), Tail(libraries), p)

resolve_libraries(libraries, p) == ResolveLibrariesLoop(<<>>, libraries, p)

(***************************************************************************)
(* Version::parse: the merge over the chain                                *)
(***************************************************************************)
Max(a, b) == IF a >= b THEN a ELSE b

\* the locals of Version::parse before the merge loop
MergeInit ==
    [ assets |-> "", minimum_launcher_version |-> 0, game_args |-> <<>>, jvm_args |-> <<>>,
      release_time |-> "", time |-> "", version_type |-> "", logging |-> {},
      main_class |-> "", assets_index |-> DefaultAssetIndex,
      java_version |-> DefaultJavaVersion, libraries_raw |-> <<>>, downloads |-> {} ]

\* one iteration of the merge loop, for the popped `version`
MergeVersion(m, version) ==
    [ minimum_launcher_version |->
          Max(UnwrapOr(version.minimum_launcher_version, 0), m.minimum_launcher_version),
      game_args |->
          IF IsSome(version.arguments) /\ IsSome(Unwrap(version.arguments).game)
          THEN m.game_args \o Unwrap(Unwrap(version.arguments).game) ELSE m.game_args,
      jvm_args |->
          IF IsSome(version.arguments) /\ IsSome(Unwrap(version.arguments).jvm)
          THEN m.jvm_args \o Unwrap(Unwrap(version.arguments).jvm) ELSE m.jvm_args,
      release_time |-> UnwrapOr(version.release_time, m.release_time),
      time |-> UnwrapOr(version.time, m.time),
      logging |-> UnwrapOr(version.logging, m.logging),
      assets |-> UnwrapOr(version.assets, m.assets),
      version_type |-> UnwrapOr(version.type, m.version_type),
      main_class |-> UnwrapOr(version.main_class, m.main_class),
      assets_index |-> UnwrapOr(version.asset_index, m.assets_index),
      java_version |-> UnwrapOr(version.java_version, m.java_version),
      libraries_raw |->
          IF IsSome(version.libraries) THEN m.libraries_raw \o Unwrap(version.libraries)
          ELSE m.libraries_raw,
      downloads |-> UnwrapOr(version.downloads, m.downloads) ]

\* while versions.len() != 0 { let version = versions.pop().unwrap(); ... }
RECURSIVE MergeLoop(_, _)
MergeLoop(m, vs) ==
    IF Len(vs) = 0 THEN m
    ELSE MergeLoop(MergeVersion(m, vs[Len(vs)]), SubSeq(vs, 1, Len(vs) - 1))

\* the check that ends in panic!("Bad Version JSON")
BadVersionJson(m) ==
    \/ m.main_class = ""
    \/ m.assets_index = DefaultAssetIndex
    \/ Cardinality(m.downloads) = 0

\* the ResolvedVersion that Version::parse builds
BuildResolved(self, m, inh, chain, p) ==
    [ id |-> self.id,
      arguments |-> [game |-> resolve_arguments(m.game_args, p),
                     jvm |-> resolve_arguments(m.jvm_args, p)],
      main_class |-> m.main_class,
      asset_index |-> self.asset_index,
      assets |-> UnwrapOr(self.assets, ""),
      downloads |-> self.downloads,
      libraries |-> resolve_libraries(m.libraries_raw, p),
      minimum_launcher_version |-> m.minimum_launcher_version,
      release_time |-> m.release_time,
      time |-> m.time,
      version_type |-> m.version_type,
      logging |-> self.logging,
      java_version |-> UnwrapOr(self.java_version, DefaultJavaVersion),
      minecraft_version |-> UnwrapOr(self.client_version, self.id),
      inheritances |-> inh,
      path_chain |-> chain ]

(***************************************************************************)
(* The rule evaluator as a state machine: one call of check_allowed.       *)
(***************************************************************************)
RulesIdle == rules = <<>> /\ allowed = FALSE /\ rules_pc = "idle"

ParseIdle ==
    /\ disk = <<>> /\ input = <<>> /\ inherits_from = None /\ versions = <<>>
    /\ inheritances = <<>> /\ path_chain = <<>> /\ parse_pc = "idle"
    /\ resolved = [kind |-> "none", msg |-> "", v |-> None]

DlIdle ==
    /\ fs = <<>> /\ download_tasks = <<>> /\ verify_existing = FALSE /\ dl_pc = "idle"
    /\ surviving = <<>> /\ total = 0 /\ next_task = 1 /\ in_flight = EmptyBag
    /\ counter = 0 /\ yielded = None /\ events = <<>> /\ first_fs = None

InstallIdle ==
    /\ manifest = None /\ version_id = "" /\ index_objects = None
    /\ version_json = [kind |-> "none", v |-> None]
    /\ inst_pc = "idle" /\ inst_version = None /\ root_files = {} /\ json_write = "none"
    /\ download_list = None /\ fetches_started = 0
    /\ inst_result = [kind |-> "none", msg |-> ""]
    /\ inst_entry = "none" /\ fetching = {}

LaunchIdle ==
    /\ launch_options = None /\ launch_version = None /\ launch_pc = "idle"
    /\ jvm_options = None /\ command_arguments = <<>> /\ argv = <<>>
    /\ child = [state |-> "none", code |-> None] /\ exit_status = None
    /\ on_start_calls = 0 /\ on_exit_calls = <<>>
    /\ launch_result = [kind |-> "none", msg |-> ""]
    /\ should_terminate = FALSE
    /\ reader_pc = [s \in {"stdout", "stderr"} |-> "none"]
    /\ pipes = [s \in {"stdout", "stderr"} |-> <<>>]
    /\ written = [s \in {"stdout", "stderr"} |-> <<>>]
    /\ delivered = [s \in {"stdout", "stderr"} |-> <<>>]

FolderIdle == folder_call = None /\ minecraft = None /\ folder_paths = None

InitRules ==
    /\ rules \in SeqsUpTo(Rules, MaxRules)
    /\ platform \in Platforms
    /\ allowed = FALSE
    /\ rules_pc = "call"
    /\ ParseIdle
    /\ DlIdle
    /\ InstallIdle
    /\ LaunchIdle
    /\ FolderIdle

CheckAllowedCall ==
    /\ rules_pc = "call"
    /\ allowed' = check_allowed(rules, platform)
    /\ rules_pc' = "done"
    /\ UNCHANGED <<install_vars, launch_vars, reader_vars, folder_vars, rules, platform, parse_vars, dl_vars>>

NextRules == CheckAllowedCall

SpecRules == InitRules /\ [][NextRules]_vars

(***************************************************************************)
(* The version resolver as a state machine: one call of Version::parse.    *)
(***************************************************************************)
MainClasses(id) == { None, Some(""), Some("Main_" \o id) }
AssetIndexes(id) ==
    { None, Some(DefaultAssetIndex),
      Some([size |-> 1, url |-> "u_" \o id, id |-> id, total_size |-> 1]) }
DownloadMaps(id) ==
    { None, Some({}), Some({<<"client", [sha1 |-> "abc", size |-> 1, url |-> "v_" \o id]>>}) }
AssetIds(id) == { None, Some("assets_" \o id) }
LoggingMaps(id) ==
    { None,
      Some({<<"client", [file |-> [sha1 |-> "l", size |-> 1, url |-> "log_" \o id],
                         argument |-> "-Dlog4j.configurationFile=${path}",
                         type |-> "log4j2-xml"]>>}) }
JavaVersions(id) == { None, Some([component |-> "java_" \o id, major_version |-> 17]) }

\* version files that vary in the inheritable fields
FieldVersions(id, inhs) ==
    { Version(id, inh, mc, ai, as, dl, lg, jv, None, None) :
        inh \in inhs, mc \in MainClasses(id), ai \in AssetIndexes(id), as \in AssetIds(id),
        dl \in DownloadMaps(id), lg \in LoggingMaps(id), jv \in JavaVersions(id) }

FieldInputs ==
    { <<c, [n \in {"p"} |-> pv]>> :
        c \in FieldVersions("c", {None, Some("p")}), pv \in FieldVersions("p", {None}) }

\* library json values
Artifact(id, k) ==
    [sha1 |-> "s", size |-> 1, url |-> "https://libraries.example/" \o id \o k \o ".jar",
     path |-> id \o k \o ".jar"]
Library(name, url, artifact, rs) == [name |-> name, url |-> url, artifact |-> artifact, rules |-> rs]
Coord3(id) == << <<"net", "example">>, <<id>>, <<"1", "2">> >>
Coord2(id) == << <<"net", "example">>, <<id>> >>

FeatureRule == [action |-> "allow", os |-> None, features |-> Some({<<"is_demo_user", TRUE>>})]
WindowsRule == [action |-> "allow", os |-> Some([name |-> Some("windows"), version |-> None]),
                features |-> None]

LibrariesOfInput ==
    { Library(Some(Coord3("c")), None, Some(Artifact("c", "1")), None),
      Library(Some(Coord3("c")), None, None, None),
      Library(Some(Coord2("c")), None, None, None),
      Library(Some(Coord3("c")), None, Some(Artifact("c", "2")), Some(<<FeatureRule>>)) }
LibrariesOfParent ==
    { Library(Some(Coord3("p")), Some("https://maven.example/"), None, None),
      Library(None, None, Some(Artifact("p", "2")), Some(<<WindowsRule>>)) }
LibrariesOfRoot ==
    { Library(Some(Coord3("r")), None, Some(Artifact("r", "1")), None) }

OptSeqs(S, n) == { None } \cup { Some(s) : s \in SeqsUpTo(S, n) }

\* argument json values
GameArguments ==
    { None,
      Some([game |-> Some(<< ArgString("--username"),
                              ArgObject(Some(<<FeatureRule>>), "string", <<"--demo">>) >>),
            jvm |-> None]),
      Some([game |-> Some(<< ArgObject(Some(<<WindowsRule>>), "array", <<"--width", "${w}">>),
                              ArgOther >>),
            jvm |-> Some(<< ArgString("-cp"), ArgObject(None, "string", <<"${classpath}">>) >>)]) }

CompleteRoot(inh, libs) ==
    Version("r", inh, Some("Main_r"), Some([size |-> 1, url |-> "u_r", id |-> "r", total_size |-> 1]),
            Some("assets_r"),
            Some({<<"client", [sha1 |-> "abc", size |-> 1, url |-> "v_r"]>>}),
            None, Some([component |-> "java_r", major_version |-> 17]),
            libs, Some([game |-> Some(<<ArgString("--version")>>), jvm |-> None]))

\* the shapes of the chain: <<inheritsFrom of c, of p, of r, files on disk>>
ChainShapes ==
    { <<None, None, None, {"p", "r"}>>,
      <<Some("p"), Some("r"), None, {"p", "r"}>>,
      <<Some("p"), Some("r"), None, {"p"}>>,
      <<Some("p"), Some("p"), None, {"p", "r"}>>,
      <<Some("p"), Some("r"), Some("p"), {"p", "r"}>>,
      <<Some("c"), None, None, {"c", "p", "r"}>> }

ChainInputs ==
    { LET c == Version("c", sh[1], Some("Main_c"), None, None, None, None, None, lc, ga)
          pv == Version("p", sh[2], None, None, None, None, None, None, lp, None)
          r == CompleteRoot(sh[3], lr)
      IN  <<c, [n \in sh[4] |-> IF n = "c" THEN c ELSE IF n = "p" THEN pv ELSE r]>> :
        sh \in ChainShapes,
        lc \in OptSeqs(LibrariesOfInput, MaxLibs),
        lp \in OptSeqs(LibrariesOfParent, MaxLibs),
        lr \in OptSeqs(LibrariesOfRoot, 1),
        ga \in GameArguments }

ResolvePlatforms == { pl \in Platforms : pl.version # "6.1.0" }

InitResolve ==
    /\ \E in \in FieldInputs \cup ChainInputs :
          /\ input = in[1]
          /\ disk = in[2]
    /\ platform \in ResolvePlatforms
    /\ inherits_from = input.inherits_from
    /\ versions = <<input>>
    /\ inheritances = <<>>
    /\ path_chain = <<>>
    /\ parse_pc = "walk"
    /\ resolved = [kind |-> "none", msg |-> "", v |-> None]
    /\ RulesIdle
    /\ DlIdle
    /\ InstallIdle
    /\ LaunchIdle
    /\ FolderIdle

\* one iteration of `while let Some(_) = inherits_from` whose file is read
LoadParent ==
    /\ parse_pc = "walk"
    /\ IsSome(inherits_from)
    /\ Len(versions) < MaxChain
    /\ LET name == Unwrap(inherits_from) IN
       /\ name \in DOMAIN disk
       /\ inheritances' = Append(inheritances, name)
       /\ path_chain' = Append(path_chain, VersionJsonPath(name))
       /\ versions' = Append(versions, disk[name])
       /\ inherits_from' = disk[name].inherits_from
    /\ UNCHANGED <<install_vars, launch_vars, reader_vars, folder_vars, disk, input, parse_pc, resolved, rule_vars, platform, dl_vars>>

\* the iteration whose read_to_string(path).unwrap() panics
LoadParentMissing ==
    /\ parse_pc = "walk"
    /\ IsSome(inherits_from)
    /\ LET name == Unwrap(inherits_from) IN
       /\ name \notin DOMAIN disk
       /\ inheritances' = Append(inheritances, name)
       /\ path_chain' = Append(path_chain, VersionJsonPath(name))
    /\ parse_pc' = "panicked"
    /\ resolved' = [kind |-> "panic", msg |-> "read_to_string", v |-> None]
    /\ UNCHANGED <<install_vars, launch_vars, reader_vars, folder_vars, disk, input, versions, inherits_from, rule_vars, platform, dl_vars>>

\* the rest of Version::parse, from the merge loop to the returned value
MergeAndResolve ==
    /\ parse_pc = "walk"
    /\ ~IsSome(inherits_from)
    /\ LET m == MergeLoop(MergeInit, versions) IN
       IF BadVersionJson(m)
       THEN /\ parse_pc' = "panicked"
            /\ resolved' = [kind |-> "panic", msg |-> "Bad Version JSON", v |-> None]
       ELSE /\ parse_pc' = "done"
            /\ resolved' = [kind |-> "resolved", msg |-> "",
                            v |-> Some(BuildResolved(input, m, inheritances, path_chain, platform))]
    /\ versions' = <<>>
    /\ UNCHANGED <<install_vars, launch_vars, reader_vars, folder_vars, disk, input, inherits_from, inheritances, path_chain, rule_vars, platform, dl_vars>>

NextResolve == LoadParent \/ LoadParentMissing \/ MergeAndResolve

SpecResolve == InitResolve /\ [][NextResolve]_vars

(***************************************************************************)
(* The downloader as a state machine: one call of download_files.          *)
(***************************************************************************)
\* buffer_unordered(16)
Parallelism == 16

\* destination files; a file is absent or holds a content
Files == {1, 2}
Absent == "absent"

\* what HTTP_CLIENT.get(url).send() and response.chunk() do for a url:
\* "ok" a 200 response with body c1, "ok2" a 200 response with body c2,
\* "status" a 404 response with an error page as body, "refused" send() fails,
\* "reset" the body breaks off
Urls == { "ok", "ok2", "status", "refused", "reset" }
Body(url) == IF url = "ok" THEN "c1" ELSE IF url = "ok2" THEN "c2" ELSE "errpage"

\* calculate_sha1_from_read: the hex digest of a content
Sha1Hex(content) ==
    CASE content = "c1" -> "h1"
      [] content = "c2" -> "h2"
      [] content = "errpage" -> "h3"
      [] content = "partial" -> "h4"

\* Download { url, file, sha1 }
Downloads ==
    [url : {"ok"}, file : Files, sha1 : {None, Some("h1")}]
    \cup [url : Urls \ {"ok"}, file : Files, sha1 : {None}]

SmallInputs ==
    { <<tasks, [f \in Files |-> c[f]], ve>> :
        tasks \in SeqsUpTo(Downloads, MaxSmallTasks),
        c \in {Absent, "c1", "c2"} \X {Absent, "c1", "c2"},
        ve \in BOOLEAN }

\* a long list, as the assets of a version: every other object has the same hash
LargeInputs ==
    { << [i \in 1..LargeTasks |-> [url |-> "ok", file |-> 1 + (i % 2), sha1 |-> None]],
         [f \in Files |-> Absent], TRUE >> }

Event(name, completed, n, step) ==
    [name |-> name, completed |-> completed, total |-> n, step |-> step]

InitDownload ==
    /\ \E in \in SmallInputs \cup LargeInputs :
          /\ download_tasks = in[1]
          /\ fs = in[2]
          /\ verify_existing = in[3]
    /\ dl_pc = "start"
    /\ surviving = <<>> /\ total = 0 /\ next_task = 1 /\ in_flight = EmptyBag
    /\ counter = 0 /\ yielded = None /\ events = <<>> /\ first_fs = None
    /\ platform \in { pl \in Platforms : pl.version = "5.15.0" }
    /\ RulesIdle
    /\ ParseIdle
    /\ InstallIdle
    /\ LaunchIdle
    /\ FolderIdle

\* the closure of the pre-filter: true when the task is kept
KeepTask(task) ==
    IF fs[task.file] = Absent THEN TRUE
    ELSE IF ~IsSome(task.sha1) THEN TRUE
    ELSE Sha1Hex(fs[task.file]) # Unwrap(task.sha1)

\* Start with the first progress event carrying step 2
StartStep2 ==
    /\ dl_pc = "start"
    /\ events' = <<Event("start", 0, 0, 0), Event("progress", 0, 0, 2)>>
    /\ surviving' = SelectSeq(download_tasks, KeepTask)
    /\ total' = Len(surviving')
    /\ counter' = 0
    /\ dl_pc' = "stream"
    /\ UNCHANGED <<install_vars, launch_vars, reader_vars, folder_vars, fs, download_tasks, verify_existing, first_fs, next_task, in_flight, yielded,
                   rule_vars, platform, parse_vars>>

\* download_files up to the construction of the stream
Start ==
    /\ dl_pc = "start"
    /\ events' = <<Event("start", 0, 0, 0), Event("progress", 0, 0, 1)>>
    /\ surviving' = SelectSeq(download_tasks, KeepTask)
    /\ total' = Len(surviving')
    /\ counter' = 0
    /\ dl_pc' = "stream"
    /\ UNCHANGED <<install_vars, launch_vars, reader_vars, folder_vars, fs, download_tasks, verify_existing, first_fs, next_task, in_flight, yielded,
                   rule_vars, platform, parse_vars>>

\* buffer_unordered(16): the buffer takes another future from the stream
BufferHasRoomOffByOne == BagCardinality(in_flight) <= Parallelism
BufferHasRoom == BagCardinality(in_flight) < Parallelism

FillEnabled == BufferHasRoom /\ next_task <= total

\* BufferUnordered::poll_next pushes the next download future
Fill ==
    /\ dl_pc = "stream"
    /\ yielded = None
    /\ FillEnabled
    /\ in_flight' = in_flight (+) SetToBag({surviving[next_task]})
    /\ next_task' = next_task + 1
    /\ UNCHANGED <<install_vars, launch_vars, reader_vars, folder_vars, fs, download_tasks, verify_existing, first_fs, dl_pc, surviving, total, counter,
                   yielded, events, rule_vars, platform, parse_vars>>

\* a download future runs to its end: the body is written, the counter incremented
Complete(d) ==
    /\ dl_pc = "stream"
    /\ yielded = None
    /\ ~FillEnabled
    /\ BagIn(d, in_flight)
    /\ d.url \in {"ok", "ok2", "status"}
    /\ fs' = [fs EXCEPT ![d.file] = Body(d.url)]
    /\ counter' = counter + 1
    /\ in_flight' = in_flight (-) SetToBag({d})
    /\ yielded' = Some(d.url)
    /\ UNCHANGED <<install_vars, launch_vars, reader_vars, folder_vars, download_tasks, verify_existing, first_fs, dl_pc, surviving, total, next_task,
                   events, rule_vars, platform, parse_vars>>

\* send().await.unwrap() panics: the request failed (create_dir_all and
\* File::create unwind the same way: nothing is written)
PanicOnSend(d) ==
    /\ dl_pc = "stream"
    /\ yielded = None
    /\ ~FillEnabled
    /\ BagIn(d, in_flight)
    /\ d.url = "refused"
    /\ dl_pc' = "panicked"
    /\ UNCHANGED <<install_vars, launch_vars, reader_vars, folder_vars, fs, download_tasks, verify_existing, first_fs, surviving, total, next_task,
                   in_flight, counter, yielded, events, rule_vars, platform, parse_vars>>

\* chunk().await.unwrap() panics after a part of the body is written
\* (write_all unwinds the same way)
PanicOnChunk(d) ==
    /\ dl_pc = "stream"
    /\ yielded = None
    /\ ~FillEnabled
    /\ BagIn(d, in_flight)
    /\ d.url = "reset"
    /\ fs' = [fs EXCEPT ![d.file] = "partial"]
    /\ dl_pc' = "panicked"
    /\ UNCHANGED <<install_vars, launch_vars, reader_vars, folder_vars, download_tasks, verify_existing, first_fs, surviving, total, next_task,
                   in_flight, counter, yielded, events, rule_vars, platform, parse_vars>>

\* the closure of for_each_concurrent(1, ..) for the item the stream yielded
EmitProgress ==
    /\ dl_pc = "stream"
    /\ IsSome(yielded)
    /\ LET completed == counter IN
       events' = Append(events, Event("progress", completed, total, 2))
    /\ yielded' = None
    /\ UNCHANGED <<install_vars, launch_vars, reader_vars, folder_vars, fs, download_tasks, verify_existing, first_fs, dl_pc, surviving, total, next_task,
                   in_flight, counter, rule_vars, platform, parse_vars>>

\* the stream has ended: the terminal event
Finish ==
    /\ dl_pc = "stream"
    /\ yielded = None
    /\ next_task > total
    /\ in_flight = EmptyBag
    /\ events' = Append(events, IF counter = total THEN Event("succeed", 0, 0, 0)
                                ELSE Event("failed", 0, 0, 0))
    /\ dl_pc' = "done"
    /\ UNCHANGED <<install_vars, launch_vars, reader_vars, folder_vars, fs, download_tasks, verify_existing, first_fs, surviving, total, next_task,
                   in_flight, counter, yielded, rule_vars, platform, parse_vars>>

\* the caller retries: download_files is called again with the same task list
\* on the files the first call left
Rerun ==
    /\ dl_pc = "done"
    /\ first_fs = None
    /\ first_fs' = Some(fs)
    /\ dl_pc' = "start"
    /\ surviving' = <<>> /\ total' = 0 /\ next_task' = 1 /\ in_flight' = EmptyBag
    /\ counter' = 0 /\ yielded' = None /\ events' = <<>>
    /\ UNCHANGED <<install_vars, launch_vars, reader_vars, folder_vars, fs, download_tasks, verify_existing, rule_vars, platform, parse_vars>>

NextDownload ==
    \/ Start
    \/ Fill
    \/ \E d \in Downloads : Complete(d)
    \/ \E d \in Downloads : PanicOnSend(d)
    \/ \E d \in Downloads : PanicOnChunk(d)
    \/ EmitProgress
    \/ Finish
    \/ Rerun

SpecDownload == InitDownload /\ [][NextDownload]_vars

(***************************************************************************)
(* The installer as a state machine: one call of install.                  *)
(***************************************************************************)
\* the response to the request for the version json: the request fails, the
\* body is not a version json, or it is one
InstallLibraries ==
    { Library(Some(Coord3("a")), None, Some(Artifact("a", "1")), None),
      Library(Some(Coord3("b")), None, Some(Artifact("b", "1")), Some(<<WindowsRule>>)) }
VersionJsons ==
    { [kind |-> "err", v |-> None], [kind |-> "malformed", v |-> None] }
    \cup { [kind |-> "json", v |-> Some(Version(id, None, Some("Main"), ai, Some("assets_1"),
                     Some({<<"client", [sha1 |-> "abc", size |-> 1, url |-> "v_1"]>>}),
                     None, None, libs, None))] :
             id \in {"a"},
             ai \in { None, Some([size |-> 1, url |-> "https://meta.example/1.json", id |-> "1",
                                  total_size |-> 1]) },
             libs \in OptSeqs(InstallLibraries, MaxLibs) }

\* the hashes of the objects of an asset index; &hash[0..2] of a hash
AssetHashes == { "aa11", "bb22" }
HashPrefix(hash) == IF hash = "aa11" THEN "aa" ELSE "bb"

\* the resolved versions a caller passes to install_dependencies: what parse
\* makes of a version json, and such a version without its asset index
ResolvedInstallVersions(p) ==
    LET parsed == { BuildResolved(Unwrap(j.v), MergeLoop(MergeInit, <<Unwrap(j.v)>>),
                                  <<>>, <<>>, p) :
                      j \in { k \in VersionJsons :
                                /\ k.kind = "json"
                                /\ ~BadVersionJson(MergeLoop(MergeInit, <<Unwrap(k.v)>>)) } }
    IN  parsed \cup { [v EXCEPT !.asset_index = None] : v \in parsed }

\* a call of install(version_id, ..), or a call of install_dependencies(version, ..)
InitInstall ==
    /\ platform \in { pl \in Platforms : pl.version = "5.15.0" }
    /\ inst_entry \in {"install", "install_dependencies"}
    /\ index_objects \in OptSeqs(AssetHashes, MaxAssets)
    /\ IF inst_entry = "install"
       THEN /\ manifest \in OptSeqs({"a", "b"}, MaxManifest)
            /\ version_id \in {"a", "b"}
            /\ version_json \in VersionJsons
            /\ inst_pc = "locate"
            /\ inst_version = None
       ELSE /\ manifest = None
            /\ version_id = ""
            /\ version_json = [kind |-> "none", v |-> None]
            /\ inst_pc = "dependencies"
            /\ inst_version \in { Some(v) : v \in ResolvedInstallVersions(platform) }
    /\ fetching = {}
    /\ root_files = {}
    /\ json_write = "none"
    /\ download_list = None
    /\ fetches_started = 0
    /\ inst_result = [kind |-> "none", msg |-> ""]
    /\ RulesIdle
    /\ ParseIdle
    /\ DlIdle
    /\ LaunchIdle
    /\ FolderIdle

IsVersionId(id) == id = version_id

\* VersionManifest::new and the search for version_id
InstallLocate ==
    /\ inst_pc = "locate"
    /\ IF ~IsSome(manifest)
       THEN /\ inst_pc' = "panicked"
            /\ inst_result' = [kind |-> "panic", msg |-> "unwrap"]
       ELSE IF Len(SelectSeq(Unwrap(manifest), IsVersionId)) # 1
       THEN /\ inst_pc' = "panicked"
            /\ inst_result' = [kind |-> "panic", msg |-> "Bad version manifest!!!"]
       ELSE /\ inst_pc' = "fetch"
            /\ UNCHANGED inst_result
    /\ UNCHANGED <<inst_entry, fetching, manifest, version_id, version_json, index_objects, inst_version, root_files,
                   json_write, download_list, fetches_started, rule_vars, platform, parse_vars,
                   dl_vars, launch_vars, reader_vars, folder_vars>>

\* the request for the version json, Version::from_str and Version::parse
InstallFetchVersion ==
    /\ inst_pc = "fetch"
    /\ IF version_json.kind = "err"
       THEN /\ inst_pc' = "failed"
            /\ inst_result' = [kind |-> "err", msg |-> "reqwest"]
            /\ UNCHANGED inst_version
       ELSE IF version_json.kind = "malformed"
       THEN /\ inst_pc' = "failed"
            /\ inst_result' = [kind |-> "err", msg |-> "serde_json"]
            /\ UNCHANGED inst_version
       ELSE LET self == Unwrap(version_json.v)
                m == MergeLoop(MergeInit, <<self>>)
            IN  IF BadVersionJson(m)
                THEN /\ inst_pc' = "panicked"
                     /\ inst_result' = [kind |-> "panic", msg |-> "Bad Version JSON"]
                     /\ UNCHANGED inst_version
                ELSE /\ inst_pc' = "write"
                     /\ inst_version' = Some(BuildResolved(self, m, <<>>, <<>>, platform))
                     /\ UNCHANGED inst_result
    /\ UNCHANGED <<inst_entry, fetching, manifest, version_id, version_json, index_objects, root_files, json_write,
                   download_list, fetches_started, rule_vars, platform, parse_vars, dl_vars, launch_vars, reader_vars, folder_vars>>

\* create_dir_all, File::create and write_all on versions/<id>/<id>.json.
\* tokio's File::poll_write copies the bytes into its buffer, hands the write
\* to the blocking pool and returns: when write_all returns the file exists
\* and the write is pending (the code neither flushes nor syncs the file)
InstallWriteJson ==
    /\ inst_pc = "write"
    /\ \E io_ok \in BOOLEAN :
          IF io_ok
          THEN /\ root_files' = root_files \cup {VersionJsonPath(Unwrap(inst_version).id)}
               /\ json_write' = "pending"
               /\ inst_pc' = "list"
               /\ UNCHANGED inst_result
          ELSE /\ inst_pc' = "failed"
               /\ inst_result' = [kind |-> "err", msg |-> "io"]
               /\ UNCHANGED <<root_files, json_write>>
    /\ UNCHANGED <<inst_entry, fetching, manifest, version_id, version_json, index_objects, inst_version, download_list,
                   fetches_started, rule_vars, platform, parse_vars, dl_vars, launch_vars, reader_vars, folder_vars>>

\* the blocking pool performs the pending write
BlockingWrite ==
    /\ json_write = "pending"
    /\ json_write' = "written"
    /\ UNCHANGED <<inst_entry, fetching, manifest, version_id, version_json, index_objects, inst_pc, inst_version,
                   root_files, download_list, fetches_started, inst_result, rule_vars, platform,
                   parse_vars, dl_vars, launch_vars, reader_vars, folder_vars>>

\* Download { url, file, sha1 } of the client jar
ClientJarTask(id) ==
    [url |-> "https://download.mcbbs.net/version/" \o version_id \o "/client",
     file |-> "versions/" \o id \o "/" \o id \o ".jar", sha1 |-> None]

generate_libraries_download_list(libraries) ==
    [i \in 1..Len(libraries) |->
        [url |-> "https://download.mcbbs.net/maven/" \o libraries[i].path,
         file |-> "libraries/" \o libraries[i].path,
         sha1 |-> Some(libraries[i].sha1)]]

\* the tasks of the objects of the asset index, then the task of the index
generate_assets_download_list(asset_index, objects) ==
    [i \in 1..Len(objects) |->
        [url |-> "https://download.mcbbs.net/assets/" \o HashPrefix(objects[i]) \o "/" \o objects[i],
         file |-> "assets/objects/" \o HashPrefix(objects[i]) \o "/" \o objects[i],
         sha1 |-> Some(objects[i])]]
    \o << [url |-> asset_index.url,
           file |-> "assets/indexes/" \o asset_index.id \o ".json",
           sha1 |-> None] >>

\* the download list is built and handed to download_files
InstallBuildList ==
    /\ inst_pc = "list"
    /\ LET version == Unwrap(inst_version) IN
       IF ~IsSome(version.asset_index)
       THEN /\ inst_pc' = "failed"
            /\ inst_result' = [kind |-> "err", msg |-> "NotFound"]
            /\ UNCHANGED download_list
       ELSE IF ~IsSome(index_objects)
       THEN /\ inst_pc' = "failed"
            /\ inst_result' = [kind |-> "err", msg |-> "asset index"]
            /\ UNCHANGED download_list
       ELSE /\ download_list' =
                  Some(<<ClientJarTask(version.id)>>
                       \o generate_libraries_download_list(version.libraries)
                       \o generate_assets_download_list(Unwrap(version.asset_index),
                                                        Unwrap(index_objects)))
            /\ inst_pc' = "download"
            /\ UNCHANGED inst_result
    /\ UNCHANGED <<inst_entry, fetching, manifest, version_id, version_json, index_objects, inst_version, root_files,
                   json_write, fetches_started, rule_vars, platform, parse_vars, dl_vars, launch_vars, reader_vars, folder_vars>>

\* install_dependencies: the download list is built and handed to download_files
InstallDependenciesBuildList ==
    /\ inst_pc = "dependencies"
    /\ LET version == Unwrap(inst_version) IN
       IF ~IsSome(version.asset_index)
       THEN /\ inst_pc' = "panicked"
            /\ inst_result' = [kind |-> "panic", msg |-> "unwrap"]
            /\ UNCHANGED download_list
       ELSE IF ~IsSome(index_objects)
       THEN /\ inst_pc' = "failed"
            /\ inst_result' = [kind |-> "err", msg |-> "asset index"]
            /\ UNCHANGED download_list
       ELSE /\ download_list' =
                  Some(generate_libraries_download_list(version.libraries)
                       \o generate_assets_download_list(Unwrap(version.asset_index),
                                                        Unwrap(index_objects)))
            /\ inst_pc' = "download"
            /\ UNCHANGED inst_result
    /\ UNCHANGED <<inst_entry, fetching, manifest, version_id, version_json, index_objects,
                   inst_version, root_files, json_write, fetches_started, rule_vars, platform,
                   parse_vars, dl_vars, launch_vars, reader_vars, folder_vars>>

\* download_files starts the fetch of the next task of the list (no file of
\* the list exists in the fresh root, the pre-filter keeps every task):
\* download creates the file of the task
InstallFetchStarts ==
    /\ inst_pc = "download"
    /\ fetches_started < Len(Unwrap(download_list))
    /\ Cardinality(fetching) < Parallelism
    /\ fetches_started' = fetches_started + 1
    /\ fetching' = fetching \cup {fetches_started + 1}
    /\ root_files' = root_files \cup {Unwrap(download_list)[fetches_started + 1].file}
    /\ UNCHANGED <<inst_entry, manifest, version_id, version_json, index_objects, inst_pc, inst_version,
                   json_write, download_list, inst_result, rule_vars, platform, parse_vars,
                   dl_vars, launch_vars, reader_vars, folder_vars>>

\* the fetch of a task of the list runs to its end
InstallFetchEnds ==
    /\ inst_pc = "download"
    /\ \E i \in fetching : fetching' = fetching \ {i}
    /\ UNCHANGED <<inst_entry, manifest, version_id, version_json, index_objects, inst_pc,
                   inst_version, root_files, json_write, download_list, fetches_started,
                   inst_result, rule_vars, platform, parse_vars, dl_vars, launch_vars, reader_vars, folder_vars>>

\* download_files returns, or one of its fetches panics
InstallDownloadEnds ==
    /\ inst_pc = "download"
    /\ \/ /\ fetches_started = Len(Unwrap(download_list))
          /\ fetching = {}
          /\ inst_pc' = "done"
          /\ inst_result' = [kind |-> "ok", msg |-> ""]
       \/ /\ fetching # {}
          /\ inst_pc' = "panicked"
          /\ inst_result' = [kind |-> "panic", msg |-> "unwrap"]
    /\ UNCHANGED <<inst_entry, fetching, manifest, version_id, version_json, index_objects, inst_version, root_files,
                   json_write, download_list, fetches_started, rule_vars, platform, parse_vars,
                   dl_vars, launch_vars, reader_vars, folder_vars>>

NextInstall ==
    \/ InstallLocate
    \/ InstallFetchVersion
    \/ InstallWriteJson
    \/ BlockingWrite
    \/ InstallBuildList
    \/ InstallDependenciesBuildList
    \/ InstallFetchStarts
    \/ InstallFetchEnds
    \/ InstallDownloadEnds

SpecInstall == InitInstall /\ [][NextInstall]_vars

(***************************************************************************)
(* Launch arguments: LaunchArguments::from_launch_options.                 *)
(* Numbers of the options (memory, width, height, port) are carried as the *)
(* decimal text that to_string prints.                                     *)
(***************************************************************************)
LaunchPlatforms ==
    { pl \in Platforms : pl.version # "6.1.0" } \cup { [name |-> "osx", version |-> "22.1.0"] }

\* PathBuf::join, printed with to_string_lossy
PathJoin(a, b, p) == a \o (IF p.name = "windows" THEN "\\" ELSE "/") \o b

\* the path separator constant of crate::core
DELIMITER(p) == IF p.name = "windows" THEN ";" ELSE ":"

DEFAULT_EXTRA_JVM_ARGS ==
    << "Xmx2G", "-XX:+UnlockExperimentalVMOptions", "-XX:+UseG1GC", "-XX:G1NewSizePercent=20",
       "-XX:G1ReservePercent=20", "-XX:MaxGCPauseMillis=50", "-XX:G1HeapRegionSize=32M" >>

\* LaunchOptions::new(version_id, MinecraftLocation::new(".minecraft"))
DefaultLaunchOptions(id, p) ==
    LET version_root == PathJoin(PathJoin(".minecraft", "versions", p), id, p) IN
    [ game_profile |-> [name |-> "Steve", uuid |-> "5f8d"], access_token |-> "91c2",
      user_type |-> "mojang", properties |-> "{}", launcher_name |-> "Magical_Launcher",
      launcher_version |-> "0.0.1", version_name |-> None, version_type |-> None,
      game_icon |-> None, game_name |-> "Minecraft", game_path |-> version_root,
      version_root |-> version_root, resource_path |-> ".minecraft",
      min_memory |-> None, max_memory |-> Some("2048"), server |-> None,
      width |-> "854", height |-> "480", fullscreen |-> FALSE,
      extra_jvm_args |-> DEFAULT_EXTRA_JVM_ARGS, extra_mc_args |-> <<>>,
      native_root |-> PathJoin(version_root, id \o "-natives", p),
      ignore_invalid_minecraft_certificates |-> FALSE, ignore_patch_discrepancies |-> FALSE,
      extra_class_paths |-> None, yggdrasil_agent |-> None, process_priority |-> "Normal",
      version_id |-> id, gc |-> "G1" ]

\* the default options as a caller modifies them
LaunchOptionRecords(id, p) ==
    LET d == DefaultLaunchOptions(id, p) IN
    { [d EXCEPT !.gc = gc, !.fullscreen = full, !.server = server,
                !.extra_jvm_args = xj, !.extra_mc_args = xm] :
        gc \in { "Serial", "Parallel", "ParallelOld", "G1", "Z" }, full \in BOOLEAN,
        server \in { None, Some([ip |-> "mc.example.org", port |-> None]),
                     Some([ip |-> "mc.example.org", port |-> Some("25565")]) },
        xj \in { DEFAULT_EXTRA_JVM_ARGS, <<>>, <<"-Xmx4G", "-Dfile.encoding=UTF-8">> },
        xm \in { <<>>, <<"--demo">>, <<"--width", "1920">> } }
    \cup
    { [d EXCEPT !.min_memory = min, !.max_memory = max,
                !.ignore_invalid_minecraft_certificates = cert,
                !.ignore_patch_discrepancies = patch, !.yggdrasil_agent = ygg,
                !.game_icon = icon] :
        min \in { None, Some("512") }, max \in { None, Some("2048") },
        cert \in BOOLEAN, patch \in BOOLEAN,
        ygg \in { None } \cup { Some([jar |-> "authlib.jar", server |-> "auth.example.org",
                                      prefetched |-> pre]) : pre \in { None, Some("e30=") } },
        icon \in { None, Some("icon.icns") } }
    \cup
    { [d EXCEPT !.process_priority = pr, !.extra_class_paths = xc] :
        pr \in { "High", "AboveNormal", "Normal", "BelowNormal", "LOW" },
        xc \in { None, Some(<<"extra1.jar", "extra2.jar">>) } }

\* an argument template: a list of pieces, literal text or a ${key}
Lit(s) == << <<"lit", s>> >>
Key(k) == << <<"key", k>> >>

JvmArguments ==
    << Lit("-Djava.library.path=") \o Key("natives_directory"),
       Lit("-Dminecraft.launcher.brand=") \o Key("launcher_name"),
       Lit("-cp"), Key("classpath") >>
GameArgumentsPlain ==
    << Lit("--username"), Key("auth_player_name"), Lit("--version"), Key("version_name"),
       Lit("--gameDir"), Key("game_directory"), Lit("--clientId"), Key("clientid") >>
GameArgumentsWidth ==
    GameArgumentsPlain
    \o << Lit("--width"), Key("resolution_width"), Lit("--height"), Key("resolution_height") >>

\* ResolvedLibrary { artifact, is_native_library }
LaunchLibraries ==
    { [artifact |-> [path |-> "a.jar"], is_native_library |-> FALSE],
      [artifact |-> [path |-> "native.jar"], is_native_library |-> TRUE],
      [artifact |-> [path |-> "org/b/1.0/b-1.0.jar"], is_native_library |-> FALSE] }

LoggingValues ==
    { None } \cup
    { Some([argument |-> Lit("-Dlog4j.configurationFile=") \o Key("path"),
            file_id |-> "client-1.12.xml", on_disk |-> on_disk]) : on_disk \in BOOLEAN }

\* ResolvedVersion, the result of Version::parse that launch passes on
ResolvedVersion(id, libraries, arguments, logging) ==
    [ id |-> id, main_class |-> "net.minecraft.client.main.Main", version_type |-> "release",
      assets |-> "5", libraries |-> libraries, arguments |-> arguments, logging |-> logging ]

LaunchInputs(p) ==
    { << o, ResolvedVersion("v", << [artifact |-> [path |-> "a.jar"], is_native_library |-> FALSE],
                                   [artifact |-> [path |-> "native.jar"],
                                    is_native_library |-> TRUE] >>,
                            Some([jvm |-> JvmArguments, game |-> game]), None) >> :
        o \in LaunchOptionRecords("v", p), game \in { GameArgumentsPlain, GameArgumentsWidth } }
    \cup
    { << o, ResolvedVersion("v", libraries, arguments, logging) >> :
        o \in { [DefaultLaunchOptions("v", p) EXCEPT !.extra_class_paths = xc] :
                  xc \in { None, Some(<<"extra1.jar", "extra2.jar">>) } },
        libraries \in SeqsUpTo(LaunchLibraries, MaxLibs),
        arguments \in { None, Some([jvm |-> JvmArguments, game |-> GameArgumentsPlain]) },
        logging \in LoggingValues }

\* match launch_options.gc { .. }; num_cpus::get_physical() is 4
GcFlags(gc) ==
    CASE gc = "G1" ->
             << "-XX:+UseG1GC", "-XX:+UnlockExperimentalVMOptions", "-XX:G1NewSizePercent=20",
                "-XX:G1ReservePercent=20", "-XX:MaxGCPauseMillis=50", "-XX:G1HeapRegionSize=16M" >>
      [] gc = "Parallel" -> << "-XX:+UseParallelGC", "-XX:ParallelGCThreads=4" >>
      [] gc = "ParallelOld" -> << "-XX:+UseParallelOldGC" >>
      [] gc = "Serial" -> << "-XX:+UseSerialGC" >>
      [] gc = "Z" -> << "-XX:+UseZGC" >>

FixedFlags ==
    << "-Xverify:none", "-XX:MaxInlineSize=420", "-XX:-UseAdaptiveSizePolicy",
       "-XX:-OmitStackTraceInFastThrow", "-XX:-DontCompileHugeMethods", "-Xss:1m", "-Xmn128m",
       "-Djava.rmi.server.useCodebaseOnly=true",
       "-Dcom.sun.jndi.rmi.object.trustURLCodebase=false",
       "-Dcom.sun.jndi.cosnaming.object.trustURLCodebase=false",
       "-Dlog4j2.formatMsgNoLookups=true" >>

\* the tokens pushed before the jvm arguments of the version
JvmFlags(o, p) ==
    << "-Dminecraft.client.jar=" \o PathJoin(o.version_root, o.version_id, p) >>
    \o (IF p.name = "osx"
        THEN << "-Xdock:name=" \o o.game_name,
                "-Xdock:icon=" \o UnwrapOr(o.game_icon,
                     PathJoin(PathJoin(o.resource_path, "assets", p), "minecraft.icns", p)) >>
        ELSE <<>>)
    \o (IF IsSome(o.min_memory) THEN << "-Xms" \o Unwrap(o.min_memory) \o "M" >> ELSE <<>>)
    \o (IF IsSome(o.max_memory) THEN << "-Xmx" \o Unwrap(o.max_memory) \o "M" >> ELSE <<>>)
    \o (IF o.ignore_invalid_minecraft_certificates
        THEN << "-Dfml.ignoreInvalidMinecraftCertificates=true" >> ELSE <<>>)
    \o (IF o.ignore_patch_discrepancies THEN << "-Dfml.ignorePatchDiscrepancies=true" >> ELSE <<>>)
    \o GcFlags(o.gc)
    \o (IF IsSome(o.yggdrasil_agent)
        THEN LET ygg == Unwrap(o.yggdrasil_agent) IN
             << "-javaagent:" \o ygg.jar \o "=" \o ygg.server, "-Dauthlibinjector.side=client" >>
             \o (IF IsSome(ygg.prefetched)
                 THEN << "-Dauthlibinjector.yggdrasil.prefetched=" \o Unwrap(ygg.prefetched) >>
                 ELSE <<>>)
        ELSE <<>>)
    \o FixedFlags

IsNotNative(lib) == ~lib.is_native_library

resolve_classpath_unfiltered(version, root, extra_class_paths, p) ==
    LET libs == version.libraries
        classpath ==
            [i \in 1..Len(libs) |-> PathJoin(PathJoin(root, "libraries", p), libs[i].artifact.path, p)]
            \o << PathJoin(PathJoin(PathJoin(root, "versions", p), version.id, p),
                           version.id \o ".jar", p) >>
            \o UnwrapOr(extra_class_paths, <<>>)
    IN  Join(classpath, DELIMITER(p))

resolve_classpath(version, root, extra_class_paths, p) ==
    LET libs == SelectSeq(version.libraries, IsNotNative)
        classpath ==
            [i \in 1..Len(libs) |-> PathJoin(PathJoin(root, "libraries", p), libs[i].artifact.path, p)]
            \o << PathJoin(PathJoin(PathJoin(root, "versions", p), version.id, p),
                           version.id \o ".jar", p) >>
            \o UnwrapOr(extra_class_paths, <<>>)
    IN  Join(classpath, DELIMITER(p))

\* format(template, args): each ${key} becomes args[key], or the bare key
RECURSIVE format(_, _)
format(template, args) ==
    IF template = <<>> THEN ""
    ELSE LET piece == Head(template)
             text == IF piece[1] = "lit" THEN piece[2]
                     ELSE IF piece[2] \in DOMAIN args THEN args[piece[2]]
                     ELSE piece[2]
         IN  text \o format(Tail(template), args)

FormatAll(templates, args) == [i \in 1..Len(templates) |-> format(templates[i], args)]

JvmOptions(o, version, p) ==
    [ natives_directory |-> o.native_root, launcher_name |-> o.launcher_name,
      launcher_version |-> o.launcher_version,
      classpath |-> resolve_classpath(version, o.resource_path, o.extra_class_paths, p) ]

\* version.arguments.jvm and the argument of logging.client when its file is on disk
JvmArgumentsOf(o, version, p) ==
    LET jvm_arguments == Unwrap(version.arguments).jvm IN
    IF IsSome(version.logging) /\ Unwrap(version.logging).on_disk
    THEN LET client == Unwrap(version.logging)
             file_path == PathJoin(PathJoin(PathJoin(o.resource_path, "assets", p),
                                            "log_configs", p), client.file_id, p)
         IN  Append(jvm_arguments,
                    [i \in 1..Len(client.argument) |->
                        IF client.argument[i] = <<"key", "path">> THEN <<"lit", file_path>>
                        ELSE client.argument[i]])
    ELSE jvm_arguments

GameOptions(o, version, p) ==
    LET assets_dir == PathJoin(o.resource_path, "assets", p) IN
    [ version_name |-> UnwrapOr(o.version_name, version.id),
      version_type |-> UnwrapOr(o.version_type, version.version_type),
      assets_root |-> assets_dir,
      game_assets |-> PathJoin(PathJoin(assets_dir, "virtual", p), version.assets, p),
      assets_index_name |-> version.assets, game_directory |-> o.game_path,
      auth_player_name |-> o.game_profile.name, auth_uuid |-> o.game_profile.uuid,
      auth_access_token |-> o.access_token, user_properties |-> o.properties,
      user_type |-> o.user_type, resolution_width |-> o.width,
      resolution_height |-> o.height ]

ServerTokens(o) ==
    IF IsSome(o.server)
    THEN << "--server", Unwrap(o.server).ip >>
         \o (IF IsSome(Unwrap(o.server).port) THEN << "--port", Unwrap(Unwrap(o.server).port) >>
             ELSE <<>>)
    ELSE <<>>

\* the end of from_launch_options: --fullscreen, or --width and --height
AppendWindowAlways(tokens, o) ==
    IF o.fullscreen THEN Append(tokens, "--fullscreen")
    ELSE tokens \o << "--width", o.width, "--height", o.height >>

AppendWindow(tokens, o) ==
    LET pushed == IF o.fullscreen THEN Append(tokens, "--fullscreen") ELSE tokens
        no_width_arguments == \A i \in 1..Len(pushed) : pushed[i] # "--width"
    IN  IF no_width_arguments /\ ~o.fullscreen
        THEN pushed \o << "--width", o.width, "--height", o.height >>
        ELSE pushed

\* the token vector, in the order of the pushes
AssembleMainClassLast(jvm, main_class, game) == jvm \o game \o <<main_class>>
Assemble(jvm, main_class, game) == jvm \o <<main_class>> \o game

from_launch_options(o, version, p) ==
    AppendWindow(
        Assemble(JvmFlags(o, p)
                     \o FormatAll(JvmArgumentsOf(o, version, p), JvmOptions(o, version, p))
                     \o o.extra_jvm_args,
                 version.main_class,
                 FormatAll(Unwrap(version.arguments).game, GameOptions(o, version, p))
                     \o o.extra_mc_args \o ServerTokens(o)),
        o)

\* to_async_command: the program and the arguments of the Command
NiceArgs(priority) ==
    CASE priority = "High" -> << "-n", "0" >>
      [] priority = "AboveNormal" -> << "-n", "5" >>
      [] priority = "Normal" -> <<>>
      [] priority = "BelowNormal" -> << "-n", "15" >>
      [] priority = "LOW" -> << "-n", "19" >>

JavaBinary == "/usr/lib64/jvm/java-17-openjdk-17/bin/java"
PowershellExec == "C:\\Windows\\System32\\WindowsPowerShell\\v1.0\\powershell.exe"

to_async_command(tokens, o, p) ==
    (IF p.name = "windows" THEN << PowershellExec, "-c" >>
     ELSE << "nice" >> \o NiceArgs(o.process_priority))
    \o << JavaBinary \o " " \o Join(tokens, " ") >>

(***************************************************************************)
(* The launcher as a state machine: one call of Launcher::launch.          *)
(***************************************************************************)
\* ExitStatus::code() of the terminated child: None when a signal ended it
ExitCodes == { None, Some(0), Some(1) }

\* the piped streams of the child
Streams == { "stdout", "stderr" }

InitLaunch ==
    /\ platform \in LaunchPlatforms
    /\ \E in \in LaunchInputs(platform) :
          /\ launch_options = in[1]
          /\ launch_version = in[2]
    /\ launch_pc = "assemble"
    /\ jvm_options = None
    /\ command_arguments = <<>>
    /\ argv = <<>>
    /\ child = [state |-> "none", code |-> None]
    /\ exit_status = None
    /\ on_start_calls = 0
    /\ on_exit_calls = <<>>
    /\ launch_result = [kind |-> "none", msg |-> ""]
    /\ should_terminate = FALSE
    /\ reader_pc = [s \in Streams |-> "none"]
    /\ pipes = [s \in Streams |-> <<>>]
    /\ written = [s \in Streams |-> <<>>]
    /\ delivered = [s \in Streams |-> <<>>]
    /\ RulesIdle
    /\ ParseIdle
    /\ DlIdle
    /\ InstallIdle
    /\ FolderIdle

\* LaunchArguments::from_launch_options(options, version)
LaunchAssemble ==
    /\ launch_pc = "assemble"
    /\ \E icon_ok \in BOOLEAN :
          IF ~IsSome(launch_options.game_icon) /\ ~icon_ok
          THEN /\ launch_pc' = "failed"
               /\ launch_result' = [kind |-> "err", msg |-> "io"]
               /\ UNCHANGED <<jvm_options, command_arguments>>
          ELSE IF ~IsSome(launch_version.arguments)
          THEN /\ launch_pc' = "panicked"
               /\ launch_result' = [kind |-> "panic", msg |-> "unwrap"]
               /\ jvm_options' = Some(JvmOptions(launch_options, launch_version, platform))
               /\ UNCHANGED command_arguments
          ELSE /\ launch_pc' = "command"
               /\ jvm_options' = Some(JvmOptions(launch_options, launch_version, platform))
               /\ command_arguments' =
                      from_launch_options(launch_options, launch_version, platform)
               /\ UNCHANGED launch_result
    /\ UNCHANGED <<launch_options, launch_version, argv, child, exit_status, on_start_calls,
                   on_exit_calls, reader_vars, rule_vars, platform, parse_vars, dl_vars,
                   install_vars, folder_vars>>

\* to_async_command(..), command.spawn() and the start of the two reader threads
LaunchSpawn ==
    /\ launch_pc = "command"
    /\ argv' = to_async_command(command_arguments, launch_options, platform)
    /\ \E spawn_ok \in BOOLEAN :
          IF spawn_ok
          THEN /\ child' = [state |-> "running", code |-> None]
               /\ reader_pc' = [s \in Streams |-> "check"]
               /\ launch_pc' = "poll"
               /\ UNCHANGED launch_result
          ELSE /\ launch_pc' = "failed"
               /\ launch_result' = [kind |-> "err", msg |-> "spawn"]
               /\ UNCHANGED <<child, reader_pc>>
    /\ UNCHANGED <<launch_options, launch_version, jvm_options, command_arguments, exit_status,
                   on_start_calls, on_exit_calls, should_terminate, pipes, written, delivered,
                   rule_vars, platform, parse_vars, dl_vars, install_vars, folder_vars>>

\* the child process terminates
ChildExits ==
    /\ child.state = "running"
    /\ \E code \in ExitCodes : child' = [state |-> "exited", code |-> code]
    /\ UNCHANGED <<launch_options, launch_version, launch_pc, jvm_options, command_arguments,
                   argv, exit_status, on_start_calls, on_exit_calls, launch_result, reader_vars,
                   rule_vars, platform, parse_vars, dl_vars, install_vars, folder_vars>>

\* v.code().unwrap_or(0)
ExitCodeRaw(code) == IF IsSome(code) THEN Unwrap(code) ELSE -1
ExitCode(code) == UnwrapOr(code, 0)

\* one iteration of the loop of launch: on_start(), then child.try_wait()
LaunchPoll ==
    /\ launch_pc = "poll"
    /\ IF child.state = "exited"
       THEN /\ on_start_calls' = on_start_calls + 1
            /\ exit_status' = Some(child.code)
            /\ on_exit_calls' = Append(on_exit_calls, ExitCode(child.code))
            /\ should_terminate' = TRUE
            /\ launch_pc' = "returned"
            /\ launch_result' = [kind |-> "ok", msg |-> ""]
       ELSE /\ on_start_calls < MaxPolls
            /\ on_start_calls' = on_start_calls + 1
            /\ UNCHANGED <<exit_status, on_exit_calls, should_terminate, launch_pc,
                           launch_result>>
    /\ UNCHANGED <<launch_options, launch_version, jvm_options, command_arguments, argv, child,
                   reader_pc, pipes, written, delivered, rule_vars, platform, parse_vars,
                   dl_vars, install_vars, folder_vars>>

NextLaunch ==
    \/ LaunchAssemble
    \/ LaunchSpawn
    \/ ChildExits
    \/ LaunchPoll

SpecLaunch == InitLaunch /\ [][NextLaunch]_vars

(***************************************************************************)
(* The launcher with the output of the child: the two reader threads that *)
(* launch detaches run beside its polling loop.                            *)
(***************************************************************************)
\* the k-th line the child writes to a stream
Line(s, k) == s \o (IF k = 1 THEN " line 1\n" ELSE IF k = 2 THEN " line 2\n" ELSE " line n\n")

\* the running child writes a line to one of its piped streams
ChildWrites(s) ==
    /\ child.state = "running"
    /\ Len(written[s]) < MaxLines
    /\ LET line == Line(s, Len(written[s]) + 1) IN
       /\ written' = [written EXCEPT ![s] = Append(@, line)]
       /\ pipes' = [pipes EXCEPT ![s] = Append(@, line)]
    /\ UNCHANGED <<launch_vars, should_terminate, reader_pc, delivered, rule_vars, platform,
                   parse_vars, dl_vars, install_vars, folder_vars>>

\* a reader thread evaluates `while !*should_terminate.lock().unwrap()`
ReaderCheck(s) ==
    /\ reader_pc[s] = "check"
    /\ reader_pc' = [reader_pc EXCEPT ![s] = IF should_terminate THEN "stopped" ELSE "read"]
    /\ UNCHANGED <<launch_vars, should_terminate, pipes, written, delivered, rule_vars,
                   platform, parse_vars, dl_vars, install_vars, folder_vars>>

\* read_line returns and the body of the loop runs: a line of the pipe is
\* handed to the observer, or, at the end of the stream (the child has exited
\* and the pipe is empty), read_line returns Ok(0) and nothing is delivered;
\* read_line blocks while the child runs and the pipe is empty
ReaderReadLine(s) ==
    /\ reader_pc[s] = "read"
    /\ IF pipes[s] # <<>>
       THEN /\ delivered' = [delivered EXCEPT ![s] =
                                Append(@, [line |-> Head(pipes[s]),
                                           after_exit |-> on_exit_calls # <<>>])]
            /\ pipes' = [pipes EXCEPT ![s] = Tail(@)]
       ELSE /\ child.state = "exited"
            /\ UNCHANGED <<delivered, pipes>>
    /\ reader_pc' = [reader_pc EXCEPT ![s] = "check"]
    /\ UNCHANGED <<launch_vars, should_terminate, written, rule_vars, platform, parse_vars,
                   dl_vars, install_vars, folder_vars>>

\* one launch of the default options on each platform
InitLaunchOutput ==
    /\ InitLaunch
    /\ launch_options = DefaultLaunchOptions("v", platform)
    /\ launch_version =
          ResolvedVersion("v", <<>>, Some([jvm |-> JvmArguments, game |-> GameArgumentsPlain]),
                          None)

NextLaunchOutput ==
    \/ NextLaunch
    \/ \E s \in Streams : ChildWrites(s)
    \/ \E s \in Streams : ReaderCheck(s)
    \/ \E s \in Streams : ReaderReadLine(s)

SpecLaunchOutput == InitLaunchOutput /\ [][NextLaunchOutput]_vars

(***************************************************************************)
(* The folder model: MinecraftLocation::new and its getters.               *)
(***************************************************************************)
MinecraftLocation(root, p) ==
    [ root |-> root,
      assets |-> PathJoin(root, "assets", p),
      libraries |-> PathJoin(root, "libraries", p),
      resourcepacks |-> PathJoin(root, "resourcepacks", p),
      mods |-> PathJoin(root, "mods", p),
      logs |-> PathJoin(root, "logs", p),
      latest_log |-> PathJoin(PathJoin(root, "logs", p), "latest.log", p),
      saves |-> PathJoin(root, "resourcepacks", p),
      versions |-> PathJoin(root, "versions", p),
      options |-> PathJoin(root, "options.txt", p),
      screenshots |-> PathJoin(root, "screenshots", p) ]

get_natives_root(self, version, p, arch) ==
    PathJoin(PathJoin(self.versions, version, p), "natives-" \o p.name \o "-" \o arch, p)

get_version_root(self, version, p) == PathJoin(self.versions, version, p)

get_version_json(self, version, p) ==
    PathJoin(get_version_root(self, version, p), version \o ".json", p)

get_version_jar(self, version, type, p) ==
    IF type = Some("client") \/ type = None
    THEN PathJoin(get_version_root(self, version, p), version \o ".jar", p)
    ELSE PathJoin(get_version_root(self, version, p),
                  version \o "-" \o Unwrap(type) \o ".jar", p)

\* the arguments of the calls: a root, a version id, a jar type and the
\* architecture the platform probe reports
FolderCalls ==
    [ root : { ".minecraft", "/home/u/.minecraft", "game" },
      version : { "1.19.4", "1.20.1-forge" },
      type : { None, Some("client"), Some("server") },
      arch : { "x64", "arm64" } ]

InitFolder ==
    /\ platform \in LaunchPlatforms
    /\ folder_call \in { Some(c) : c \in FolderCalls }
    /\ minecraft = None
    /\ folder_paths = None
    /\ RulesIdle
    /\ ParseIdle
    /\ DlIdle
    /\ InstallIdle
    /\ LaunchIdle

\* MinecraftLocation::new(root)
FolderNew ==
    /\ IsSome(folder_call)
    /\ minecraft = None
    /\ minecraft' = Some(MinecraftLocation(Unwrap(folder_call).root, platform))
    /\ UNCHANGED <<folder_call, folder_paths, rule_vars, platform, parse_vars, dl_vars,
                   install_vars, launch_vars, reader_vars>>

\* the getters of the location for the version of the call
FolderGet ==
    /\ IsSome(minecraft)
    /\ folder_paths = None
    /\ LET self == Unwrap(minecraft)
           c == Unwrap(folder_call)
       IN  folder_paths' =
               Some([ natives_root |-> get_natives_root(self, c.version, platform, c.arch),
                      version_json |-> get_version_json(self, c.version, platform),
                      version_jar |-> get_version_jar(self, c.version, c.type, platform) ])
    /\ UNCHANGED <<folder_call, minecraft, rule_vars, platform, parse_vars, dl_vars,
                   install_vars, launch_vars, reader_vars>>

NextFolder == FolderNew \/ FolderGet

SpecFolder == InitFolder /\ [][NextFolder]_vars

(***************************************************************************)
(* Claims about the rule evaluator and the version resolver.               *)
(***************************************************************************)
MaxOf(S) == CHOOSE x \in S : \A y \in S : y <= x

\* the versions of the chain that parse has read, the input first
OnDisk(name) == name \in DOMAIN disk
ChainRead ==
    LET read == SelectSeq(inheritances, OnDisk)
    IN  <<input>> \o [i \in 1..Len(read) |-> disk[read[i]]]

\* the value of `field` in the nearest version of the chain that defines it
RECURSIVE NearestDefined(_, _)
NearestDefined(chain, field) ==
    IF chain = <<>> THEN None
    ELSE IF IsSome(Head(chain)[field]) THEN Head(chain)[field]
    ELSE NearestDefined(Tail(chain), field)

Resolved == Unwrap(resolved.v)

\* C1: whenever Version::parse returns a resolved version, its main_class is
\* non-empty, its asset_index is present and not the all-default record and
\* its downloads map is present and non-empty.
C1_ResolvedInvariants ==
    parse_pc = "done" =>
        /\ Resolved.main_class # ""
        /\ IsSome(Resolved.asset_index)
        /\ Unwrap(Resolved.asset_index) # DefaultAssetIndex
        /\ IsSome(Resolved.downloads)
        /\ Unwrap(Resolved.downloads) # {}

\* C2: for assets, assetIndex, downloads, logging and javaVersion the resolved
\* version carries the value of the nearest version of the chain that defines
\* the field; javaVersion is {jre-legacy, 8} only when no version defines it.
C2_NearestDefinition ==
    parse_pc = "done" =>
        /\ Resolved.assets = UnwrapOr(NearestDefined(ChainRead, "assets"), "")
        /\ Resolved.asset_index = NearestDefined(ChainRead, "asset_index")
        /\ Resolved.downloads = NearestDefined(ChainRead, "downloads")
        /\ Resolved.logging = NearestDefined(ChainRead, "logging")
        /\ Resolved.java_version =
               UnwrapOr(NearestDefined(ChainRead, "java_version"), DefaultJavaVersion)

\* the library entries of the chain in root-first order
RECURSIVE RootFirstLibraries(_)
RootFirstLibraries(chain) ==
    IF chain = <<>> THEN <<>>
    ELSE RootFirstLibraries(Tail(chain)) \o UnwrapOr(Head(chain).libraries, <<>>)

PassesRules(library, p) == ~IsSome(library.rules) \/ check_allowed(Unwrap(library.rules), p)

RECURSIVE KeptByRules(_, _)
KeptByRules(s, p) ==
    IF s = <<>> THEN <<>>
    ELSE IF PassesRules(Head(s), p) THEN <<Head(s)>> \o KeptByRules(Tail(s), p)
    ELSE KeptByRules(Tail(s), p)

\* the artifact an entry stands for: downloads.artifact, else its maven coordinate
HasArtifactOrCoordinate(library) ==
    IsSome(library.artifact) \/ (IsSome(library.name) /\ Len(Unwrap(library.name)) = 3)
ArtifactOf(library) ==
    IF IsSome(library.artifact) THEN Unwrap(library.artifact) ELSE MavenArtifact(library)

\* C3: the resolved library list is the concatenation of the per-version lists
\* in root-first order, original order kept, entries removed by rule filtering
\* only; the resolved mainClass is that of the nearest version defining it.
C3_RootFirstConcatenation ==
    parse_pc = "done" =>
        LET kept == KeptByRules(RootFirstLibraries(ChainRead), platform) IN
        /\ Len(Resolved.libraries) = Len(kept)
        /\ \A i \in 1..Len(kept) :
              HasArtifactOrCoordinate(kept[i]) => Resolved.libraries[i] = ArtifactOf(kept[i])
        /\ Some(Resolved.main_class) = NearestDefined(ChainRead, "main_class")

\* an entry without downloads.artifact whose name has not three segments
MalformedCoordinate(library) ==
    ~IsSome(library.artifact) /\ IsSome(library.name) /\ Len(Unwrap(library.name)) # 3

\* C22: a library entry without downloads.artifact whose name does not consist
\* of exactly three colon-separated segments makes resolution fail: parse
\* returns no resolved version for a chain that holds such an entry (among
\* the entries its rules allow).
C22_MalformedCoordinateRejected ==
    parse_pc = "done" =>
        LET kept == KeptByRules(RootFirstLibraries(ChainRead), platform) IN
        \A i \in 1..Len(kept) : ~MalformedCoordinate(kept[i])

\* the rule applies: no os, or no os.name, or os.name is the platform's and
\* os.version is absent or matches the platform's version
RuleApplies(rule, p) ==
    \/ ~IsSome(rule.os)
    \/ ~IsSome(Unwrap(rule.os).name)
    \/ /\ Unwrap(Unwrap(rule.os).name) = p.name
       /\ \/ ~IsSome(Unwrap(rule.os).version)
          \/ RegexIsMatch(Unwrap(Unwrap(rule.os).version), p.version)

RequiresFeature(rule) ==
    IsSome(rule.features) /\ \E f \in Unwrap(rule.features) : f[2] = TRUE
GuardedOnlyByFeature(library) ==
    /\ IsSome(library.rules)
    /\ Len(Unwrap(library.rules)) > 0
    /\ \A i \in 1..Len(Unwrap(library.rules)) :
          /\ Unwrap(library.rules)[i].action = "allow"
          /\ RequiresFeature(Unwrap(library.rules)[i])

\* C5: features are treated as always false: a library guarded only by
\* [{action: allow, features: {f: true}}] is left out of the resolved version.
C5_FeatureGuardedLeftOut ==
    parse_pc = "done" =>
        \A k \in 1..Len(ChainRead) :
            LET libs == UnwrapOr(ChainRead[k].libraries, <<>>) IN
            \A i \in 1..Len(libs) :
                GuardedOnlyByFeature(libs[i]) =>
                    \A j \in 1..Len(Resolved.libraries) :
                        Resolved.libraries[j] # ArtifactOf(libs[i])

\* the ids of the versions the chain walk has reached, the input first
ChainIds == <<input.id>> \o inheritances

\* C19: Version::parse terminates on every set of version files: the walk
\* stops at the first version with no inheritsFrom, and it never follows an
\* inheritsFrom that names a version it has already reached (a cycle, a
\* version that inherits from itself included) but fails with BadVersionJson.
C19_CycleDetected ==
    \A i, j \in 1..Len(ChainIds) : i # j => ChainIds[i] # ChainIds[j]

(***************************************************************************)
(* Claims about the downloader.                                            *)
(***************************************************************************)
\* C6: at every moment the number of fetches that have been started and have
\* not yet completed is at most 16, whatever the number of surviving tasks.
C6_AtMost16InFlight == BagCardinality(in_flight) <= 16

\* sixteen fetches are in flight and a further task waits in the stream
C6_Witness ==
    /\ dl_pc = "stream"
    /\ BagCardinality(in_flight) = 16
    /\ next_task <= total
    /\ total > 16

\* the pre-filter of the claim: keep when the file does not exist, or when it
\* exists, verify_existing is set and the task has no sha1 or another sha1
ClaimKeeps(task) ==
    \/ fs[task.file] = Absent
    \/ /\ fs[task.file] # Absent
       /\ verify_existing
       /\ \/ ~IsSome(task.sha1)
          \/ Sha1Hex(fs[task.file]) # Unwrap(task.sha1)

\* C7: the pre-filter keeps a task exactly when its file does not exist, or the
\* file exists, verify_existing is true and the task has no sha1 or the file's
\* SHA-1 differs from it; it drops the task otherwise.
C7_PreFilter ==
    (dl_pc = "stream" /\ next_task = 1) =>
        surviving = SelectSeq(download_tasks, ClaimKeeps)

IsStep2(e) == e.name = "progress" /\ e.step = 2
IsTerminal(e) == e.name \in {"succeed", "failed"}
RunEnded == dl_pc \in {"done", "panicked"}

\* C8: one progress event with step 2 per completed task; their completed
\* values never decrease and never exceed N, each carries total = N and the
\* last one of the run carries completed = N.
C8_ProgressEvents ==
    LET p2 == SelectSeq(events, IsStep2) IN
    /\ \A i \in 1..Len(p2) : p2[i].total = total /\ p2[i].completed <= total
    /\ \A i \in 1..Len(p2) : \A j \in i..Len(p2) : p2[i].completed <= p2[j].completed
    /\ yielded = None => Len(p2) = counter
    /\ (RunEnded /\ total > 0) => (Len(p2) > 0 /\ p2[Len(p2)].completed = total)

\* the surviving tasks whose fetch ends in an error
FetchFails(d) == d.url \in {"status", "refused", "reset"}
SomeFetchFails == \E i \in 1..Len(surviving) : FetchFails(surviving[i])

\* C9: every run ends with exactly one terminal event, emitted after the last
\* progress event: succeed when all tasks completed without error, failed when
\* a task returned an error.
C9_OneTerminalEvent ==
    RunEnded =>
        /\ Len(SelectSeq(events, IsTerminal)) = 1
        /\ IsTerminal(events[Len(events)])
        /\ events[Len(events)].name = IF SomeFetchFails THEN "failed" ELSE "succeed"

\* C10: when a fetch fails with an HTTP or I/O error the run does not abort:
\* every other surviving task is run to completion and the failure is reported
\* through the failed observer.
C10_DrainsAfterFailure ==
    (RunEnded /\ \E i \in 1..Len(surviving) : surviving[i].url \in {"refused", "reset"}) =>
        /\ dl_pc = "done"
        /\ next_task > total
        /\ in_flight = EmptyBag
        /\ \E i \in 1..Len(events) : events[i].name = "failed"

\* the task's file exists and its SHA-1 is the task's sha1
FileMatches(files, task) ==
    /\ files[task.file] # Absent
    /\ IsSome(task.sha1)
    /\ Sha1Hex(files[task.file]) = Unwrap(task.sha1)

\* every fetch of the first run succeeded: a task that names a failing url is
\* never dropped by the pre-filter (the file of a dropped task matches a sha1)
AllFetchesSucceed == \A i \in 1..Len(download_tasks) : download_tasks[i].url \in {"ok", "ok2"}
SecondRunEnded == IsSome(first_fs) /\ RunEnded

\* C11: a second run on the same task list with verify_existing = true, after
\* a run in which every fetch succeeded, ends with the files the first run
\* left, and it starts no fetch exactly when every task's file exists and
\* matches its sha1.
C11_SecondRunIdempotent ==
    (SecondRunEnded /\ verify_existing /\ AllFetchesSucceed) =>
        /\ fs = Unwrap(first_fs)
        /\ (next_task = 1) <=>
               \A i \in 1..Len(download_tasks) : FileMatches(Unwrap(first_fs), download_tasks[i])

\* C21: a fetch whose request fails, whose response status is not 2xx or
\* whose file operation fails ends by returning an error value (it does not
\* unwind the run), and is never yielded or counted as a completed task.
C21_FetchErrorReturned ==
    /\ dl_pc # "panicked"
    /\ IsSome(yielded) => ~FetchFails([url |-> Unwrap(yielded)])

IsProgress(e) == e.name = "progress"
NoTaskSurvives == dl_pc \in {"stream", "done"} /\ total = 0
NoFetch ==
    /\ next_task = 1 /\ in_flight = EmptyBag /\ counter = 0 /\ yielded = None
    /\ IsSome(first_fs) => fs = Unwrap(first_fs)

\* C26: when the pre-filter drops every task, download_files performs no
\* fetch and the only progress event it emits is progress(0, 0, step=1), the
\* one that precedes the pre-filter.
C26_EmptyRun ==
    NoTaskSurvives =>
        /\ NoFetch
        /\ SelectSeq(events, IsProgress) = << Event("progress", 0, 0, 1) >>

\* C26 as stated: the only progress event of such a run is progress(0, 0, step=2)
C26_EmptyRunStep2 ==
    NoTaskSurvives =>
        /\ NoFetch
        /\ SelectSeq(events, IsProgress) = << Event("progress", 0, 0, 2) >>

\* a run of one task whose sha1 is the digest of the existing file has ended
C26_Witness ==
    /\ dl_pc = "done"
    /\ Len(download_tasks) = 1
    /\ FileMatches(fs, download_tasks[1])
    /\ verify_existing
    /\ total = 0
    /\ events[Len(events)].name = "succeed"

(***************************************************************************)
(* Claims about the installer.                                             *)
(***************************************************************************)
\* C12: in every state in which a download task of install has started, the
\* version json exists at versions/<id>/<id>.json and is completely written.
C12_JsonWrittenBeforeFetch ==
    (inst_entry = "install" /\ fetches_started > 0) =>
        /\ VersionJsonPath(Unwrap(inst_version).id) \in root_files
        /\ json_write = "written"

InstallEnded == inst_pc \in {"done", "failed", "panicked"}

\* C20: when the manifest holds zero or more than one entry whose id is
\* version_id, install returns the error VersionNotFound to its caller, and it
\* has written no file under the game root and scheduled no download.
C20_VersionNotFound ==
    (InstallEnded /\ IsSome(manifest) /\ Len(SelectSeq(Unwrap(manifest), IsVersionId)) # 1) =>
        /\ inst_result = [kind |-> "err", msg |-> "VersionNotFound"]
        /\ root_files = {}
        /\ download_list = None

\* the destination files of a task list, and the files the claim names for a
\* resolved version: the client jar, every library, the asset index json and
\* every asset object
TaskFiles(list) == { list[i].file : i \in 1..Len(list) }
ExpectedFiles(version, objects) ==
    { "versions/" \o version.id \o "/" \o version.id \o ".jar" }
    \cup { "libraries/" \o version.libraries[i].path : i \in 1..Len(version.libraries) }
    \cup { "assets/indexes/" \o Unwrap(version.asset_index).id \o ".json" }
    \cup { "assets/objects/" \o HashPrefix(objects[i]) \o "/" \o objects[i] :
             i \in 1..Len(objects) }

\* C23: the download list that install_dependencies hands to download_files
\* for a resolved version is the one steps 5-6 of install build for it: the
\* client jar, every resolved library, the asset index json, every asset object.
C23_SameTaskSet ==
    IsSome(download_list) =>
        TaskFiles(Unwrap(download_list)) =
            ExpectedFiles(Unwrap(inst_version), Unwrap(index_objects))

\* C28: no two fetches of install or install_dependencies that are in flight
\* at the same time write the same destination file.
C28_NoConcurrentSameFile ==
    \A i \in fetching : \A j \in fetching :
        i # j => Unwrap(download_list)[i].file # Unwrap(download_list)[j].file

(***************************************************************************)
(* Claims about the launcher.                                              *)
(***************************************************************************)
\* C13: a launch invokes the exit observer once: never twice, only after the
\* child has terminated, with the child's exit code (0 when the code is
\* unknown) and with the exit status recorded; when launch returns from its
\* polling loop the invocation has been made.
C13_ExitObserverOnce ==
    /\ Len(on_exit_calls) <= 1
    /\ Len(on_exit_calls) = 1 =>
          /\ child.state = "exited"
          /\ on_exit_calls[1] = (IF IsSome(child.code) THEN Unwrap(child.code) ELSE 0)
          /\ exit_status = Some(child.code)
    /\ launch_pc = "returned" => Len(on_exit_calls) = 1

\* launch has returned after a child that a signal ended: the observer got 0,
\* and the loop had polled the child while it was still running
C13_Witness ==
    /\ launch_pc = "returned"
    /\ child.code = None
    /\ on_exit_calls = <<0>>
    /\ on_start_calls > 1

\* C14: the child is spawned directly, not through a shell, and every token of
\* the assembled vector is an argv element of its own.
C14_DirectSpawn ==
    child.state # "none" =>
        /\ argv[1] # PowershellExec
        /\ \E k \in 1..Len(argv) : SubSeq(argv, k + 1, Len(argv)) = command_arguments

Assembled == Len(command_arguments) > 0

\* the paths of the non-native libraries, in order, under <root>/libraries
RECURSIVE NonNativePaths(_, _, _)
NonNativePaths(libs, root, p) ==
    IF libs = <<>> THEN <<>>
    ELSE (IF Head(libs).is_native_library THEN <<>>
          ELSE << PathJoin(PathJoin(root, "libraries", p), Head(libs).artifact.path, p) >>)
         \o NonNativePaths(Tail(libs), root, p)

\* C15: the classpath is the paths of the non-native resolved libraries in
\* resolved order under <root>/libraries, then <root>/versions/<id>/<id>.jar,
\* then the caller's extra entries, joined with ';' on Windows and ':'
\* elsewhere; no native library is in it.
C15_Classpath ==
    IsSome(jvm_options) =>
        LET root == launch_options.resource_path
            id == launch_version.id
            entries ==
                NonNativePaths(launch_version.libraries, root, platform)
                \o << PathJoin(PathJoin(PathJoin(root, "versions", platform), id, platform),
                               id \o ".jar", platform) >>
                \o UnwrapOr(launch_options.extra_class_paths, <<>>)
        IN  Unwrap(jvm_options).classpath =
                Join(entries, IF platform.name = "windows" THEN ";" ELSE ":")

\* a native library between two others is left out, extra entries follow the jar
C15_Witness ==
    /\ IsSome(jvm_options)
    /\ platform.name = "windows"
    /\ Len(launch_version.libraries) = 2
    /\ launch_version.libraries[1].is_native_library
    /\ ~launch_version.libraries[2].is_native_library
    /\ IsSome(launch_options.extra_class_paths)

\* the substituted arguments of the version and the tokens that follow mainClass
SubstitutedJvm ==
    FormatAll(JvmArgumentsOf(launch_options, launch_version, platform), Unwrap(jvm_options))
SubstitutedGame ==
    FormatAll(Unwrap(launch_version.arguments).game,
              GameOptions(launch_options, launch_version, platform))
GameSide == SubstitutedGame \o launch_options.extra_mc_args \o ServerTokens(launch_options)
WindowArguments ==
    { <<>>, <<"--fullscreen">>,
      <<"--width", launch_options.width, "--height", launch_options.height>> }

\* C16: the fixed flags, the substituted jvm arguments and the extra jvm
\* arguments, in that order, precede the mainClass token; the substituted game
\* arguments, the extra MC arguments, --server/--port and the window arguments
\* follow it in that order.
C16_TokenOrder ==
    Assembled =>
        \E window \in WindowArguments :
            command_arguments =
                JvmFlags(launch_options, platform) \o SubstitutedJvm
                \o launch_options.extra_jvm_args
                \o << launch_version.main_class >>
                \o SubstitutedGame \o launch_options.extra_mc_args
                \o ServerTokens(launch_options) \o window

\* every group of tokens is present
C16_Witness ==
    /\ Assembled
    /\ launch_options.extra_jvm_args = <<"-Xmx4G", "-Dfile.encoding=UTF-8">>
    /\ launch_options.extra_mc_args = <<"--demo">>
    /\ IsSome(launch_options.server) /\ IsSome(Unwrap(launch_options.server).port)
    /\ command_arguments[Len(command_arguments) - 3] = "--width"

\* the flags of each collector as the spec documents them, and the flags that
\* select or tune a collector
DocumentedGcFlags(gc) ==
    CASE gc = "G1" ->
             << "-XX:+UseG1GC", "-XX:+UnlockExperimentalVMOptions", "-XX:G1NewSizePercent=20",
                "-XX:G1ReservePercent=20", "-XX:MaxGCPauseMillis=50", "-XX:G1HeapRegionSize=16M" >>
      [] gc = "Parallel" -> << "-XX:+UseParallelGC", "-XX:ParallelGCThreads=4" >>
      [] gc = "ParallelOld" -> << "-XX:+UseParallelOldGC" >>
      [] gc = "Serial" -> << "-XX:+UseSerialGC" >>
      [] gc = "Z" -> << "-XX:+UseZGC" >>
CollectorOf(token) ==
    CASE token \in { "-XX:+UseG1GC", "-XX:G1NewSizePercent=20", "-XX:G1ReservePercent=20",
                     "-XX:G1HeapRegionSize=16M", "-XX:G1HeapRegionSize=32M" } -> "G1"
      [] token \in { "-XX:+UseParallelGC", "-XX:ParallelGCThreads=4" } -> "Parallel"
      [] token = "-XX:+UseParallelOldGC" -> "ParallelOld"
      [] token = "-XX:+UseSerialGC" -> "Serial"
      [] token = "-XX:+UseZGC" -> "Z"
      [] OTHER -> "none"

\* C17: for every GC choice and every launch options record, the default one
\* included, the token vector holds the flags of the chosen collector in the
\* documented order and no flag that selects or tunes another collector.
C17_OnlyChosenCollector ==
    Assembled =>
        LET flags == DocumentedGcFlags(launch_options.gc) IN
        /\ \E k \in 1..Len(command_arguments) :
              SubSeq(command_arguments, k, k + Len(flags) - 1) = flags
        /\ \A i \in 1..Len(command_arguments) :
              CollectorOf(command_arguments[i]) \in { "none", launch_options.gc }

C24_StartObserverOnce == on_start_calls <= 1

\* the adjustment nice(1) makes to the niceness of the program it runs: the
\* number after -n, and 10 when no -n is given
NiceAdjustment(args) == IF Len(args) >= 3 /\ args[2] = "-n" THEN args[3] ELSE "10"
SpawnedWithNice == child.state # "none" /\ platform.name # "windows"

\* C25: on non-Windows the command applies process_priority as a nice value:
\* 0 for high, 5 for above-normal, 15 for below-normal, 19 for low; for normal
\* the priority step is skipped and the child runs with unchanged niceness.
C25_NiceValues ==
    SpawnedWithNice =>
        LET priority == launch_options.process_priority IN
        IF priority = "Normal" THEN argv[1] # "nice" \/ NiceAdjustment(argv) = "0"
        ELSE /\ argv[1] = "nice"
             /\ NiceAdjustment(argv) =
                   CASE priority = "High" -> "0"
                     [] priority = "AboveNormal" -> "5"
                     [] priority = "BelowNormal" -> "15"
                     [] priority = "LOW" -> "19"

\* the lines a reader thread has handed to its observer
DeliveredLines(s) == [i \in 1..Len(delivered[s]) |-> delivered[s][i].line]

\* C29: every line the child wrote to stdout or stderr before it exited is
\* delivered to the observer of the stream, in the order written: a reader
\* thread that has stopped has delivered all of them.
C29_EveryLineDelivered ==
    \A s \in Streams :
        /\ DeliveredLines(s) = SubSeq(written[s], 1, Len(delivered[s]))
        /\ reader_pc[s] = "stopped" => DeliveredLines(s) = written[s]

\* C30: no stdout or stderr observer is invoked after the exit observer has
\* been invoked.
C30_NoOutputAfterExit ==
    \A s \in Streams : \A i \in 1..Len(delivered[s]) : ~delivered[s][i].after_exit

(***************************************************************************)
(* Claims about the folder model.                                          *)
(***************************************************************************)
\* <root>/<a>/<b>/.. written with the separator of the platform
RECURSIVE Under(_, _, _)
Under(root, names, p) ==
    IF names = <<>> THEN root ELSE Under(PathJoin(root, Head(names), p), Tail(names), p)

\* C27: the derived paths follow the documented layout: version_json(id) is
\* <root>/versions/<id>/<id>.json, version_jar(id) is <root>/versions/<id>/<id>.jar
\* (<id>-<kind>.jar for a non-client kind), natives_root is
\* <root>/versions/<id>/natives-<os>-<arch>, and mods, resourcepacks, saves and
\* options.txt are <root>/mods, <root>/resourcepacks, <root>/saves and
\* <root>/options.txt, all pairwise distinct.
C27_FolderLayout ==
    IsSome(folder_paths) =>
        LET c == Unwrap(folder_call)
            root == c.root
            id == c.version
            self == Unwrap(minecraft)
            paths == Unwrap(folder_paths)
            jar == IF c.type = None \/ c.type = Some("client") THEN id \o ".jar"
                   ELSE id \o "-" \o Unwrap(c.type) \o ".jar"
        IN  /\ paths.version_json = Under(root, <<"versions", id, id \o ".json">>, platform)
            /\ paths.version_jar = Under(root, <<"versions", id, jar>>, platform)
            /\ paths.natives_root =
                   Under(root, <<"versions", id,
                                 "natives-" \o platform.name \o "-" \o c.arch>>, platform)
            /\ self.mods = Under(root, <<"mods">>, platform)
            /\ self.resourcepacks = Under(root, <<"resourcepacks">>, platform)
            /\ self.saves = Under(root, <<"saves">>, platform)
            /\ self.options = Under(root, <<"options.txt">>, platform)
            /\ Cardinality({ paths.version_json, paths.version_jar, paths.natives_root,
                             self.mods, self.resourcepacks, self.saves, self.options }) = 7

====
